---- MODULE Spec2Model ----
(***************************************************************************)
(* Device-group membership reconciliation of                               *)
(* forge/ee/db/controllers/DeviceGroup.js.                                 *)
(*                                                                         *)
(* The Device table is the shared state: groupId[d] is the committed       *)
(* DeviceGroupId column of device d.  Every controller call is a process   *)
(* whose atomic steps are the stretches of code between two awaits.  A     *)
(* statement issued with the `transaction` option writes into the          *)
(* transaction's private write set (pending) and takes a row lock; a       *)
(* statement issued without it (every count of validateDeviceList, the     *)
(* getDevices read, and the updates of a directly called primitive) reads  *)
(* and writes the committed table.                                         *)
(***************************************************************************)
EXTENDS Integers, Sequences, FiniteSets, TLC

\* ------------------------------------------------------------------ bounds

\* Devices in the Device table.
NumDevices == 3
\* Total number of device references one request may carry (over all lists).
MaxLen == 2
\* Total number of device references of a request of the concurrent
\* specification.
MaxLenConc == 1

\* ------------------------------------------------------- the fixed database

Devices == 1..NumDevices
\* DeviceGroupId = NULL, ApplicationId = NULL, TeamId = NULL
Null == 0
\* Groups 1 and 2 belong to application 1 (team 1); group 3 belongs to
\* application 3, which belongs to no team.
Groups == {1, 2, 3}
\* The `deviceGroup` argument left out by the caller.
NoGroup == 0

\* DeviceGroup.ApplicationId
groupApplicationId(g) == IF g = 3 THEN 3 ELSE 1
\* Application.TeamId
applicationTeamId(a) == IF a = 3 THEN Null ELSE a
\* Device.ApplicationId: every third device belongs to application 2.
deviceApplicationId(d) == IF d % 3 = 0 THEN 2 ELSE 1
\* Device.TeamId
deviceTeamId(d) == IF d % 3 = 0 THEN 2 ELSE 1

\* ---------------------------------------------------------------- helpers

Range(s) == {s[i] : i \in 1..Len(s)}

\* Array.prototype.includes
Includes(s, x) == \E i \in 1..Len(s) : s[i] = x

\* The ids of a set as the ascending list a query returns them in.
RECURSIVE SortedSeq(_)
SortedSeq(S) ==
    IF S = {} THEN <<>>
    ELSE LET m == CHOOSE x \in S : \A y \in S : x <= y
         IN  <<m>> \o SortedSeq(S \ {m})

\* All lists over S of length at most n.
SeqsUpTo(S, n) == UNION {[1..k -> S] : k \in 0..n}

\* An optional argument: given = FALSE is JavaScript's undefined.
Undefined == [given |-> FALSE, list |-> <<>>]
Given(l) == [given |-> TRUE, list |-> l]

\* ------------------------------------------------------ device references

\* The three forms a device reference takes: a numeric id, a hashid string,
\* an object carrying an id.
RefForms == {"number", "string", "object"}

\* Device.encodeHashid: the opaque string of an id, here its negative.
encodeHashid(id) == 0 - id
\* Device.decodeHashid: the list of numbers a hashid string decodes to.
decodeHashid(h) == <<0 - h>>

\* The reference to device id in form f.
DeviceRef(f, id) ==
    [form |-> f, v |-> IF f = "string" THEN encodeHashid(id) ELSE id]

DeviceRefs(f, ids) == [i \in 1..Len(ids) |-> DeviceRef(f, ids[i])]

\* deviceListToIds (lines 181-193)
deviceListToIds(deviceList) ==
    [i \in 1..Len(deviceList) |->
        LET device == deviceList[i]
        IN  IF device.form = "string" THEN decodeHashid(device.v)[1]
            ELSE device.v]

\* The ids as the numbers a variable holds once the references are converted.
Numbers(ids) == DeviceRefs("number", ids)

\* `x && deviceListToIds(x)` (lines 81-83)
optListToIds(x) ==
    IF x.given THEN Given(Numbers(deviceListToIds(x.list))) ELSE Undefined

\* ------------------------------------------------------------------ errors

NoError == [name |-> "", code |-> "", message |-> "", statusCode |-> 0]
PlainError(msg) == [name |-> "Error", code |-> "", message |-> msg, statusCode |-> 0]

\* new DeviceGroupMembershipValidationError(code, message, statusCode)
\* (lines 4-15)
DeviceGroupMembershipValidationError(code, msg, statusCode) ==
    [name |-> "DeviceGroupMembershipValidationError", code |-> code,
     message |-> msg, statusCode |-> statusCode]

DeviceGroupRequired == PlainError("DeviceGroup is required")
NoTeamError ==
    PlainError("DeviceGroup must belong to an Application that belongs to a Team")
CannotAddError ==
    DeviceGroupMembershipValidationError("invalid_input",
        "One or more devices cannot be added to the group", 400)
CannotRemoveError ==
    DeviceGroupMembershipValidationError("invalid_input",
        "One or more devices cannot be removed from the group", 400)
\* A failure of the database while it executes a statement.
DatabaseError == PlainError("SequelizeDatabaseError")

\* `Failed to update device group membership: ${err.message}` (line 121)
FailedToUpdate(err) ==
    PlainError("Failed to update device group membership: " \o err.message)

\* Mutant of Rethrown: every error is wrapped.
RethrownWrapped(err) == FailedToUpdate(err)

\* What the catch block of updateDeviceGroupMembership throws after the
\* rollback (lines 116-121).
Rethrown(err) ==
    IF err.name = "DeviceGroupMembershipValidationError" THEN err
    ELSE FailedToUpdate(err)

\* ------------------------------------------------------- the diff (85-98)

\* Mutant of actualRemoveDevices: without setDevices, the whole of
\* removeDevices is removed.
actualRemoveDevicesUnfiltered(currentMemberIds, removeDevices, setDevices) ==
    IF setDevices.given
    THEN SelectSeq(currentMemberIds, LAMBDA d : ~Includes(setDevices.list, d))
    ELSE IF removeDevices.given THEN removeDevices.list
    ELSE <<>>

\* actualRemoveDevices (lines 88, 93)
actualRemoveDevices(currentMemberIds, removeDevices, setDevices) ==
    IF setDevices.given
    THEN SelectSeq(currentMemberIds, LAMBDA d : ~Includes(setDevices.list, d))
    ELSE IF removeDevices.given
         THEN SelectSeq(currentMemberIds, LAMBDA d : Includes(removeDevices.list, d))
         ELSE <<>>

\* Mutant of actualAddDevices: the filters keep the members instead of
\* dropping them.
actualAddDevicesMembers(currentMemberIds, addDevices, setDevices) ==
    IF setDevices.given
    THEN SelectSeq(setDevices.list, LAMBDA d : Includes(currentMemberIds, d))
    ELSE IF addDevices.given
         THEN SelectSeq(addDevices.list, LAMBDA d : Includes(currentMemberIds, d))
         ELSE <<>>

\* Mutant of actualAddDevices: addDevices is added even with setDevices.
actualAddDevicesMerged(currentMemberIds, addDevices, setDevices) ==
    SelectSeq(setDevices.list \o addDevices.list,
              LAMBDA d : ~Includes(currentMemberIds, d))

\* Mutant of actualAddDevices: the current members are not filtered out.
actualAddDevicesUnfiltered(currentMemberIds, addDevices, setDevices) ==
    IF setDevices.given THEN setDevices.list
    ELSE IF addDevices.given THEN addDevices.list
    ELSE <<>>

\* actualAddDevices (lines 90, 96)
actualAddDevices(currentMemberIds, addDevices, setDevices) ==
    IF setDevices.given
    THEN SelectSeq(setDevices.list, LAMBDA d : ~Includes(currentMemberIds, d))
    ELSE IF addDevices.given
         THEN SelectSeq(addDevices.list, LAMBDA d : ~Includes(currentMemberIds, d))
         ELSE <<>>

\* ------------------------------------------- validateDeviceList (205-257)

\* The precondition error of validateDeviceList (lines 208-220), NoError
\* when there is none.
validatePrecondition(g) ==
    IF g = NoGroup THEN DeviceGroupRequired
    ELSE IF applicationTeamId(groupApplicationId(g)) = Null THEN NoTeamError
    ELSE NoError

\* Mutant of addOkCount: the count leaves out the DeviceGroupId condition.
addOkCountAnyGroup(table, g, addList) ==
    Cardinality({d \in Devices :
        /\ Includes(addList, d)
        /\ deviceApplicationId(d) = groupApplicationId(g)
        /\ deviceTeamId(d) = applicationTeamId(groupApplicationId(g))})

\* Mutant of addOkCount: the count leaves out the ApplicationId and TeamId
\* conditions.
addOkCountAnyOwner(table, g, addList) ==
    Cardinality({d \in Devices :
        /\ Includes(addList, d)
        /\ (table[d] = Null \/ table[d] = g)})

\* Mutant of addOkCount: only devices in no group count.
addOkCountOnlyNull(table, g, addList) ==
    Cardinality({d \in Devices :
        /\ Includes(addList, d)
        /\ table[d] = Null
        /\ deviceApplicationId(d) = groupApplicationId(g)
        /\ deviceTeamId(d) = applicationTeamId(groupApplicationId(g))})

\* Device.count of the add list on table (lines 228-238): the rows whose id
\* is in the list, that are in no group or in g, of g's application and team.
addOkCount(table, g, addList) ==
    Cardinality({d \in Devices :
        /\ Includes(addList, d)
        /\ (table[d] = Null \/ table[d] = g)
        /\ deviceApplicationId(d) = groupApplicationId(g)
        /\ deviceTeamId(d) = applicationTeamId(groupApplicationId(g))})

\* Mutant of removeOkCount: every listed device counts.
removeOkCountAll(table, g, removeList) ==
    Cardinality({d \in Devices : Includes(removeList, d)})

\* Device.count of the remove list on table (lines 244-251).
removeOkCount(table, g, removeList) ==
    Cardinality({d \in Devices :
        /\ Includes(removeList, d)
        /\ table[d] = g
        /\ deviceApplicationId(d) = groupApplicationId(g)
        /\ deviceTeamId(d) = applicationTeamId(groupApplicationId(g))})

\* validateDeviceList(app, deviceGroup, addList, null): the error it throws,
\* NoError when it returns the ids.
validateAddError(table, g, deviceList) ==
    IF validatePrecondition(g) # NoError THEN validatePrecondition(g)
    ELSE IF addOkCount(table, g, deviceListToIds(deviceList)) # Len(deviceList)
         THEN CannotAddError
         ELSE NoError

\* validateDeviceList(app, deviceGroup, null, removeList)
validateRemoveError(table, g, deviceList) ==
    IF validatePrecondition(g) # NoError THEN validatePrecondition(g)
    ELSE IF removeOkCount(table, g, deviceListToIds(deviceList)) # Len(deviceList)
         THEN CannotRemoveError
         ELSE NoError

\* ------------------------------------------------------------------- state

\* The controller calls that may be in progress at once.
Procs == {1, 2}

VARIABLES
    groupId,    \* groupId[d]: the committed Device.DeviceGroupId of device d
    pc,         \* pc[c]: the await call c is suspended at
    req,        \* req[c]: the operation of call c, its group and its list
    local,      \* local[c]: the variables of updateDeviceGroupMembership
    txn,        \* txn[c]: the state of the transaction t of call c
    pending,    \* pending[c]: the uncommitted writes <<d, value>> of t
    caught,     \* caught[c]: the error the catch block of call c handles
    result,     \* result[c]: how call c ended
    hist,       \* hist[c]: what call c has done to the database so far
    notif       \* the call of sendUpdateCommand, if one is in progress

vars == <<groupId, pc, req, local, txn, pending, caught, result, hist, notif>>

NoReq == [op |-> "", deviceGroup |-> NoGroup, deviceList |-> <<>>]

\* addDevices, removeDevices and setDevices hold device references: the
\* caller's until line 81, numbers from there on.
NoLocal ==
    [addDevices |-> Undefined, removeDevices |-> Undefined,
     setDevices |-> Undefined, currentMemberIds |-> <<>>,
     actualAddDevices |-> <<>>, actualRemoveDevices |-> <<>>]

NoResult == [status |-> "none", error |-> NoError]
Returned == [status |-> "returned", error |-> NoError]
Thrown(err) == [status |-> "thrown", error |-> err]

\* hist[c] at the start of a call: the database accesses the call has made
\* (queries), the update statements among them (updates), the ids it has
\* handed to the assign and to the remove update, the rows it has changed in
\* the committed table (changed), the rows another call has changed between
\* the validation of its add list and its assign update (stale), and whether
\* the call repeats a setDevices call that has just succeeded (again).
NoHist ==
    [queries |-> 0, updates |-> 0, assignIds |-> {}, removeIds |-> {},
     changed |-> {}, stale |-> {}, again |-> FALSE]

\* The snapshots a device or a group may have as its target.
Snapshots == {1, 2}

\* No call of sendUpdateCommand: comms is app.comms, snapshotOf the
\* targetSnapshotId column of the devices, target the
\* PipelineStageDeviceGroup.targetSnapshotId of the group, devices the result
\* of getDevices, sent the commands handed to sendCommand, in order.
NoNotif ==
    [pc |-> "idle", comms |-> FALSE, deviceGroup |-> NoGroup,
     snapshotOf |-> [d \in Devices |-> 1], target |-> 1,
     devices |-> <<>>, sent |-> <<>>, result |-> NoResult]

Init ==
    /\ notif = NoNotif
    /\ groupId = [d \in Devices |-> Null]
    /\ pc = [c \in Procs |-> "idle"]
    /\ req = [c \in Procs |-> NoReq]
    /\ local = [c \in Procs |-> NoLocal]
    /\ txn = [c \in Procs |-> "none"]
    /\ pending = [c \in Procs |-> {}]
    /\ caught = [c \in Procs |-> NoError]
    /\ result = [c \in Procs |-> NoResult]
    /\ hist = [c \in Procs |-> NoHist]

\* ------------------------------------------------------------ the database

\* deviceGroup.getDevices() (line 78): the committed rows of group g.
getDevices(table, g) ==
    DeviceRefs("object", SortedSeq({d \in Devices : table[d] = g}))

\* The table as the statements of transaction c see it: its own writes over
\* the committed rows.
View(c) ==
    [d \in Devices |->
        IF \E w \in pending[c] : w[1] = d
        THEN (CHOOSE w \in pending[c] : w[1] = d)[2]
        ELSE groupId[d]]

\* The rows transaction c has written, which it keeps locked until it ends.
LockedBy(c) == {w[1] : w \in pending[c]}

\* An update of rows waits while another open transaction holds one of them.
Blocked(c, rows) ==
    \E o \in Procs \ {c} : txn[o] = "open" /\ LockedBy(o) \cap rows # {}

\* The writes of a transaction with the rows written to value.
Written(writes, rows, value) ==
    {w \in writes : w[1] \notin rows} \cup {<<d, value>> : d \in rows}

\* The rows `Device.update({DeviceGroupId: g}, {where: {id: ids}})` changes
\* (line 127): every row whose id is listed.
assignRows(table, g, idList) == {d \in Devices : Includes(idList, d)}

\* Mutant of removeRows: the update has no DeviceGroupId condition.
removeRowsAnyGroup(table, g, idList) ==
    {d \in Devices : Includes(idList, d)}

\* The rows `Device.update({DeviceGroupId: null}, {where: {id: ids,
\* DeviceGroupId: g}})` changes (line 139): the listed rows still in g.
removeRows(table, g, idList) ==
    {d \in Devices : Includes(idList, d) /\ table[d] = g}

\* The rows of the list call c assigns.
addRows(c) ==
    IF req[c].op = "updateDeviceGroupMembership"
    THEN Range(local[c].actualAddDevices)
    ELSE Range(deviceListToIds(req[c].deviceList))

\* hist after call c has made an access recorded as mine and has changed
\* the committed rows: they are stale for every other call that has validated
\* its add list and not yet applied it.
Changed(c, mine, rows) ==
    [o \in Procs |->
        IF o = c THEN [mine EXCEPT !.changed = @ \cup rows]
        ELSE IF pc[o] = "assignUpdate"
             THEN [hist[o] EXCEPT !.stale = @ \cup (rows \cap addRows(o))]
             ELSE hist[o]]

\* ----------------------------------------------------------------- actions

\* The list an optional argument carries, its ids given in form f.
Arg(f, x) == IF x.given THEN Given(DeviceRefs(f, x.list)) ELSE Undefined

\* The optional lists of at most n ids of devs.
OptLists(devs, n) == {Undefined} \cup {Given(l) : l \in SeqsUpTo(devs, n)}

\* The list handed to assignDevicesToGroup: actualAddDevices from
\* updateDeviceGroupMembership (line 105), the caller's list otherwise.
assignList(c) ==
    IF req[c].op = "updateDeviceGroupMembership"
    THEN Numbers(local[c].actualAddDevices)
    ELSE req[c].deviceList

\* The list handed to removeDevicesFromGroup (line 109).
removeList(c) ==
    IF req[c].op = "updateDeviceGroupMembership"
    THEN Numbers(local[c].actualRemoveDevices)
    ELSE req[c].deviceList

\* Mutant of transactionOf: t is not handed to the primitives.
noTransaction(c) == "null"

\* The `transaction` argument of the primitives: t when
\* updateDeviceGroupMembership calls them (lines 105, 109), null by default
\* (lines 125, 136).
transactionOf(c) ==
    IF req[c].op = "updateDeviceGroupMembership" THEN "t" ELSE "null"

\* Mutant of afterAssign: the call ends after the add step.
afterAssignEnd(c) == "done"

\* Where updateDeviceGroupMembership goes after the add step (lines 107-112).
afterAssign(c) ==
    IF Len(local[c].actualRemoveDevices) > 0 THEN "removeValidate" ELSE "commit"

\* Where updateDeviceGroupMembership goes once the transaction is open
\* (lines 103-112).
afterTransaction(c) ==
    IF Len(local[c].actualAddDevices) > 0 THEN "assignValidate" ELSE afterAssign(c)

\* Mutant of entry: the group argument is not checked.
entryNoGroupCheck(g, a, r, s) ==
    IF ~s.given /\ ~a.given /\ ~r.given THEN "return" ELSE "getDevices"

\* Mutant of entry: the group argument is checked first.
entryGroupFirst(g, a, r, s) ==
    IF g = NoGroup THEN "throw"
    ELSE IF ~s.given /\ ~a.given /\ ~r.given THEN "return"
    ELSE "getDevices"

\* The checks updateDeviceGroupMembership starts with (lines 70-75): nothing
\* to do, then the group argument.
entry(g, a, r, s) ==
    IF ~s.given /\ ~a.given /\ ~r.given THEN "return"
    ELSE IF g = NoGroup THEN "throw"
    ELSE "getDevices"

\* updateDeviceGroupMembership(app, g, {addDevices: a, removeDevices: r,
\* setDevices: s}) up to its first await (lines 63-78); h is the history the
\* call starts with.
updateDeviceGroupMembership(c, g, a, r, s, h) ==
    /\ req' = [req EXCEPT ![c] =
                  [NoReq EXCEPT !.op = "updateDeviceGroupMembership",
                                !.deviceGroup = g]]
    /\ local' = [local EXCEPT ![c] =
                    [NoLocal EXCEPT !.addDevices = a, !.removeDevices = r,
                                    !.setDevices = s]]
    /\ hist' = [hist EXCEPT ![c] = h]
    /\ txn' = [txn EXCEPT ![c] = "none"]
    /\ IF entry(g, a, r, s) = "return"
       THEN /\ pc' = [pc EXCEPT ![c] = "done"]
            /\ result' = [result EXCEPT ![c] = Returned]
       ELSE IF entry(g, a, r, s) = "throw"
            THEN /\ pc' = [pc EXCEPT ![c] = "done"]
                 /\ result' = [result EXCEPT ![c] = Thrown(DeviceGroupRequired)]
            ELSE /\ pc' = [pc EXCEPT ![c] = "getDevices"]
                 /\ result' = [result EXCEPT ![c] = NoResult]
    /\ UNCHANGED <<groupId, pending, caught>>
    /\ UNCHANGED notif

\* A call of updateDeviceGroupMembership.
CallUpdateDeviceGroupMembership(c, g, f, a, r, s) ==
    /\ pc[c] = "idle"
    /\ updateDeviceGroupMembership(c, g, Arg(f, a), Arg(f, r), Arg(f, s), NoHist)

\* The caller of a setDevices call that has succeeded makes the same call
\* again.
RepeatCall(c) ==
    /\ pc[c] = "done"
    /\ req[c].op = "updateDeviceGroupMembership"
    /\ result[c] = Returned
    /\ local[c].setDevices.given
    /\ ~hist[c].again
    /\ updateDeviceGroupMembership(c, req[c].deviceGroup, local[c].addDevices,
           local[c].removeDevices, local[c].setDevices,
           [NoHist EXCEPT !.again = TRUE])

\* A direct call of assignDevicesToGroup(app, g, l) (line 125),
\* transaction = null.
CallAssignDevicesToGroup(c, g, f, l) ==
    /\ pc[c] = "idle"
    /\ req' = [req EXCEPT ![c] =
                  [op |-> "assignDevicesToGroup", deviceGroup |-> g,
                   deviceList |-> DeviceRefs(f, l)]]
    /\ pc' = [pc EXCEPT ![c] = "assignValidate"]
    /\ UNCHANGED <<groupId, local, txn, pending, caught, result, hist>>
    /\ UNCHANGED notif

\* A direct call of removeDevicesFromGroup(app, g, l) (line 136),
\* transaction = null.
CallRemoveDevicesFromGroup(c, g, f, l) ==
    /\ pc[c] = "idle"
    /\ req' = [req EXCEPT ![c] =
                  [op |-> "removeDevicesFromGroup", deviceGroup |-> g,
                   deviceList |-> DeviceRefs(f, l)]]
    /\ pc' = [pc EXCEPT ![c] = "removeValidate"]
    /\ UNCHANGED <<groupId, local, txn, pending, caught, result, hist>>
    /\ UNCHANGED notif

\* The result of deviceGroup.getDevices() arrives; the references are
\* converted to ids and the diff is computed (lines 78-98).
GetDevices(c) ==
    /\ pc[c] = "getDevices"
    /\ LET currentMemberIds ==
               deviceListToIds(getDevices(groupId, req[c].deviceGroup))
           setDevices == optListToIds(local[c].setDevices)
           addDevices == optListToIds(local[c].addDevices)
           removeDevices == optListToIds(local[c].removeDevices)
           ids(x) == [given |-> x.given, list |-> deviceListToIds(x.list)]
       IN  local' = [local EXCEPT ![c] =
               [currentMemberIds |-> currentMemberIds,
                addDevices |-> addDevices,
                removeDevices |-> removeDevices,
                setDevices |-> setDevices,
                actualAddDevices |->
                    actualAddDevices(currentMemberIds, ids(addDevices),
                                     ids(setDevices)),
                actualRemoveDevices |->
                    actualRemoveDevices(currentMemberIds, ids(removeDevices),
                                        ids(setDevices))]]
    /\ hist' = [hist EXCEPT ![c].queries = @ + 1]
    /\ pc' = [pc EXCEPT ![c] = "transaction"]
    /\ UNCHANGED <<groupId, req, txn, pending, caught, result>>
    /\ UNCHANGED notif

\* app.db.sequelize.transaction() returns t (line 101).
Transaction(c) ==
    /\ pc[c] = "transaction"
    /\ txn' = [txn EXCEPT ![c] = "open"]
    /\ hist' = [hist EXCEPT ![c].queries = @ + 1]
    /\ pc' = [pc EXCEPT ![c] = afterTransaction(c)]
    /\ UNCHANGED <<groupId, req, local, pending, caught, result>>
    /\ UNCHANGED notif

\* An error thrown in call c: inside the try block of
\* updateDeviceGroupMembership it goes to the catch block (line 113), in a
\* directly called primitive it goes to the caller.
Throw(c, err) ==
    IF req[c].op = "updateDeviceGroupMembership"
    THEN /\ pc' = [pc EXCEPT ![c] = "rollback"]
         /\ caught' = [caught EXCEPT ![c] = err]
         /\ UNCHANGED result
    ELSE /\ pc' = [pc EXCEPT ![c] = "done"]
         /\ result' = [result EXCEPT ![c] = Thrown(err)]
         /\ UNCHANGED caught

\* validateDeviceList(app, deviceGroup, deviceList, null) of
\* assignDevicesToGroup (line 126): its count reads the committed table.
AssignValidate(c) ==
    /\ pc[c] = "assignValidate"
    /\ LET err == validateAddError(groupId, req[c].deviceGroup, assignList(c))
       IN  IF err # NoError
           THEN /\ Throw(c, err)
                /\ hist' = [hist EXCEPT ![c].queries =
                               IF err = CannotAddError THEN @ + 1 ELSE @]
           ELSE /\ pc' = [pc EXCEPT ![c] = "assignUpdate"]
                /\ hist' = [hist EXCEPT ![c].queries = @ + 1]
                /\ UNCHANGED <<caught, result>>
    /\ UNCHANGED <<groupId, req, local, txn, pending>>
    /\ UNCHANGED notif

\* Device.update({DeviceGroupId: deviceGroup.id}, {where: {id: addList},
\* transaction}) (line 127): in the transaction of
\* updateDeviceGroupMembership, or committed at once.  The statement may fail.
AssignUpdate(c) ==
    /\ pc[c] = "assignUpdate"
    /\ LET g == req[c].deviceGroup
           idList == deviceListToIds(assignList(c))
           rows == assignRows(View(c), g, idList)
           mine == [hist[c] EXCEPT !.queries = @ + 1, !.updates = @ + 1,
                                   !.assignIds = @ \cup Range(idList)]
       IN  \/ /\ ~Blocked(c, rows)
              /\ IF transactionOf(c) = "t"
                 THEN /\ pending' = [pending EXCEPT ![c] = Written(@, rows, g)]
                      /\ hist' = [hist EXCEPT ![c] = mine]
                      /\ UNCHANGED groupId
                 ELSE /\ groupId' = [d \in Devices |->
                                        IF d \in rows THEN g ELSE groupId[d]]
                      /\ hist' = Changed(c, mine, {d \in rows : groupId[d] # g})
                      /\ UNCHANGED pending
              /\ IF req[c].op = "updateDeviceGroupMembership"
                 THEN /\ pc' = [pc EXCEPT ![c] = afterAssign(c)]
                      /\ UNCHANGED result
                 ELSE /\ pc' = [pc EXCEPT ![c] = "done"]
                      /\ result' = [result EXCEPT ![c] = Returned]
              /\ UNCHANGED caught
           \/ /\ Throw(c, DatabaseError)
              /\ hist' = [hist EXCEPT ![c] = mine]
              /\ UNCHANGED <<groupId, pending>>
    /\ UNCHANGED <<req, local, txn>>
    /\ UNCHANGED notif

\* validateDeviceList(app, deviceGroup, null, deviceList) of
\* removeDevicesFromGroup (line 137): its count reads the committed table.
RemoveValidate(c) ==
    /\ pc[c] = "removeValidate"
    /\ LET err == validateRemoveError(groupId, req[c].deviceGroup, removeList(c))
       IN  IF err # NoError
           THEN /\ Throw(c, err)
                /\ hist' = [hist EXCEPT ![c].queries =
                               IF err = CannotRemoveError THEN @ + 1 ELSE @]
           ELSE /\ pc' = [pc EXCEPT ![c] = "removeUpdate"]
                /\ hist' = [hist EXCEPT ![c].queries = @ + 1]
                /\ UNCHANGED <<caught, result>>
    /\ UNCHANGED <<groupId, req, local, txn, pending>>
    /\ UNCHANGED notif

\* Device.update({DeviceGroupId: null}, {where: {id: removeList,
\* DeviceGroupId: deviceGroup.id}, transaction}) (line 139).  The statement
\* may fail.
RemoveUpdate(c) ==
    /\ pc[c] = "removeUpdate"
    /\ LET g == req[c].deviceGroup
           idList == deviceListToIds(removeList(c))
           rows == removeRows(View(c), g, idList)
           mine == [hist[c] EXCEPT !.queries = @ + 1, !.updates = @ + 1,
                                   !.removeIds = @ \cup Range(idList)]
       IN  \/ /\ ~Blocked(c, rows)
              /\ IF transactionOf(c) = "t"
                 THEN /\ pending' = [pending EXCEPT ![c] = Written(@, rows, Null)]
                      /\ hist' = [hist EXCEPT ![c] = mine]
                      /\ UNCHANGED groupId
                 ELSE /\ groupId' = [d \in Devices |->
                                        IF d \in rows THEN Null ELSE groupId[d]]
                      /\ hist' = Changed(c, mine, {d \in rows : groupId[d] # Null})
                      /\ UNCHANGED pending
              /\ IF req[c].op = "updateDeviceGroupMembership"
                 THEN /\ pc' = [pc EXCEPT ![c] = "commit"]
                      /\ UNCHANGED result
                 ELSE /\ pc' = [pc EXCEPT ![c] = "done"]
                      /\ result' = [result EXCEPT ![c] = Returned]
              /\ UNCHANGED caught
           \/ /\ Throw(c, DatabaseError)
              /\ hist' = [hist EXCEPT ![c] = mine]
              /\ UNCHANGED <<groupId, pending>>
    /\ UNCHANGED <<req, local, txn>>
    /\ UNCHANGED notif

\* t.commit() (line 112): the writes of t reach the committed table at once,
\* or the commit fails.
Commit(c) ==
    /\ pc[c] = "commit"
    /\ \/ /\ groupId' = View(c)
          /\ pending' = [pending EXCEPT ![c] = {}]
          /\ txn' = [txn EXCEPT ![c] = "committed"]
          /\ pc' = [pc EXCEPT ![c] = "done"]
          /\ result' = [result EXCEPT ![c] = Returned]
          /\ hist' = Changed(c,
                 [hist[c] EXCEPT !.queries = @ + 1],
                 {d \in Devices : View(c)[d] # groupId[d]})
          /\ UNCHANGED caught
       \/ /\ pc' = [pc EXCEPT ![c] = "rollback"]
          /\ caught' = [caught EXCEPT ![c] = DatabaseError]
          /\ hist' = [hist EXCEPT ![c].queries = @ + 1]
          /\ UNCHANGED <<groupId, pending, txn, result>>
    /\ UNCHANGED <<req, local>>
    /\ UNCHANGED notif

\* The catch block (lines 113-122): t.rollback() drops the writes of t, then
\* the error is thrown again, a validation error as it is and any other error
\* inside a generic one.
Rollback(c) ==
    /\ pc[c] = "rollback"
    /\ pending' = [pending EXCEPT ![c] = {}]
    /\ txn' = [txn EXCEPT ![c] = "rolledback"]
    /\ result' = [result EXCEPT ![c] = Thrown(Rethrown(caught[c]))]
    /\ hist' = [hist EXCEPT ![c].queries = @ + 1]
    /\ pc' = [pc EXCEPT ![c] = "done"]
    /\ UNCHANGED <<groupId, req, local, caught>>
    /\ UNCHANGED notif

\* The caller has taken the result of call c; c may make its next call.
Return(c) ==
    /\ pc[c] = "done"
    /\ pc' = [pc EXCEPT ![c] = "idle"]
    /\ req' = [req EXCEPT ![c] = NoReq]
    /\ local' = [local EXCEPT ![c] = NoLocal]
    /\ txn' = [txn EXCEPT ![c] = "none"]
    /\ caught' = [caught EXCEPT ![c] = NoError]
    /\ result' = [result EXCEPT ![c] = NoResult]
    /\ hist' = [hist EXCEPT ![c] = NoHist]
    /\ UNCHANGED <<groupId, pending>>
    /\ UNCHANGED notif

\* The requests of updateDeviceGroupMembership with at most n device
\* references over the three lists.
Requests(devs, n) ==
    {[addDevices |-> a, removeDevices |-> r, setDevices |-> s] :
        a \in OptLists(devs, n), r \in OptLists(devs, n), s \in OptLists(devs, n)}

\* The requests that give one of the three lists only.
SingleRequests(devs, n) ==
    {q \in Requests(devs, n) :
        Cardinality({k \in {"addDevices", "removeDevices", "setDevices"} :
                        q[k].given}) = 1}

\* The requests whose lists hold at most n device references together.
BoundedRequests(devs, n) ==
    UNION {UNION {{[addDevices |-> a, removeDevices |-> r, setDevices |-> s] :
                      s \in OptLists(devs, n - Len(a.list) - Len(r.list))} :
                  r \in OptLists(devs, n - Len(a.list))} :
           a \in OptLists(devs, n)}

\* A call of any of the three operations on one of the groups, with one of
\* the requests or one of the lists, the references given in one of the forms.
Call(c, groups, requests, lists, forms) ==
    /\ pc[c] = "idle"
    /\ \E g \in groups, f \in forms :
        \/ \E q \in requests :
               CallUpdateDeviceGroupMembership(c, g, f, q.addDevices,
                   q.removeDevices, q.setDevices)
        \/ \E l \in lists : CallAssignDevicesToGroup(c, g, f, l)
        \/ \E l \in lists : CallRemoveDevicesFromGroup(c, g, f, l)

\* A step of call c after it was made.
Step(c) ==
    \/ GetDevices(c)
    \/ Transaction(c)
    \/ AssignValidate(c)
    \/ AssignUpdate(c)
    \/ RemoveValidate(c)
    \/ RemoveUpdate(c)
    \/ Commit(c)
    \/ Rollback(c)
    \/ Return(c)

\* One caller: every call runs to its end before the next is made.
SeqRequests == BoundedRequests(Devices, MaxLen)
SeqLists == SeqsUpTo(Devices, MaxLen)

Next ==
    \/ Call(1, Groups \cup {NoGroup}, SeqRequests, SeqLists, RefForms)
    \/ Step(1)
    \/ RepeatCall(1)

Spec == Init /\ [][Next]_vars

\* The groups of application 1, which compete for its devices, and the
\* requests of the concurrent callers: one list, not empty.
SharedGroups == {g \in Groups : groupApplicationId(g) = 1}
ConcLists == SeqsUpTo(Devices, MaxLenConc) \ {<<>>}
ConcRequests ==
    {q \in SingleRequests(Devices, MaxLenConc) :
        Len(q.addDevices.list) + Len(q.removeDevices.list)
            + Len(q.setDevices.list) > 0}

\* Concurrent callers: the steps of their calls interleave.
NextConc ==
    \E c \in Procs :
        \/ Call(c, SharedGroups, ConcRequests, ConcLists, {"number"})
        \/ Step(c)

SpecConc == Init /\ [][NextConc]_vars

\* The caller of an assignDevicesToGroup call that has succeeded makes the
\* same call again.
RepeatAssign(c) ==
    /\ pc[c] = "done"
    /\ req[c].op = "assignDevicesToGroup"
    /\ result[c] = Returned
    /\ ~hist[c].again
    /\ pc' = [pc EXCEPT ![c] = "assignValidate"]
    /\ result' = [result EXCEPT ![c] = NoResult]
    /\ hist' = [hist EXCEPT ![c] = [NoHist EXCEPT !.again = TRUE]]
    /\ UNCHANGED <<groupId, req, local, txn, pending, caught, notif>>

\* One caller of the primitives alone.
NextDirect ==
    \/ \E g \in Groups \cup {NoGroup}, f \in RefForms, l \in SeqLists :
           CallAssignDevicesToGroup(1, g, f, l)
    \/ \E g \in Groups \cup {NoGroup}, f \in RefForms, l \in SeqLists :
           CallRemoveDevicesFromGroup(1, g, f, l)
    \/ AssignValidate(1)
    \/ AssignUpdate(1)
    \/ RemoveValidate(1)
    \/ RemoveUpdate(1)
    \/ Return(1)
    \/ RepeatAssign(1)

SpecDirect == Init /\ [][NextDirect]_vars

\* A step of call c between its call and its end: the continuation after an
\* await, which runs once the awaited statement has ended.
Resume(c) ==
    \/ GetDevices(c)
    \/ Transaction(c)
    \/ AssignValidate(c)
    \/ AssignUpdate(c)
    \/ RemoveValidate(c)
    \/ RemoveUpdate(c)
    \/ Commit(c)
    \/ Rollback(c)

\* One caller whose calls are not left suspended for ever: every statement
\* awaited ends, with a result or an error, and the call resumes.
NextLive ==
    \/ Call(1, Groups \cup {NoGroup}, BoundedRequests(Devices, MaxLenConc),
            SeqsUpTo(Devices, MaxLenConc), RefForms)
    \/ Step(1)

SpecLive == Init /\ [][NextLive]_vars /\ WF_vars(Resume(1))

\* Two calls of updateDeviceGroupMembership on one group, the second made
\* before the first has ended, after direct calls have filled the group.
SameGroup == 1
SameDevices == {d \in Devices : deviceApplicationId(d) = groupApplicationId(SameGroup)}
SameRequests == BoundedRequests(SameDevices, MaxLenConc)

\* A call of updateDeviceGroupMembership has been made.
Started == \E c \in Procs : req[c].op = "updateDeviceGroupMembership"

\* Before the two calls: a direct call that puts devices into the group.
SetupAssign ==
    /\ ~Started
    /\ \E l \in SeqsUpTo(SameDevices, MaxLen) \ {<<>>} :
           CallAssignDevicesToGroup(1, SameGroup, "number", l)

\* The caller has taken the result of the direct call.
SetupReturn ==
    /\ req[1].op = "assignDevicesToGroup"
    /\ Return(1)

\* One of the two calls is made, while the other has not ended.
SameCall(c) ==
    /\ req[1].op # "assignDevicesToGroup"
    /\ \A o \in Procs : pc[o] # "done"
    /\ \E q \in SameRequests :
           CallUpdateDeviceGroupMembership(c, SameGroup, "number",
               q.addDevices, q.removeDevices, q.setDevices)

NextSame ==
    \/ SetupAssign
    \/ SetupReturn
    \/ \E c \in Procs : SameCall(c)
    \/ \E c \in Procs : Resume(c)

SpecSame == Init /\ [][NextSame]_vars

\* ------------------------------------------------------- sendUpdateCommand

\* The variables of the membership calls.
dbvars == <<groupId, pc, req, local, txn, pending, caught, result, hist>>

\* deviceGroup.PipelineStageDeviceGroup.targetSnapshotId (line 162)
groupTargetSnapshotId(g) == IF g = 2 THEN 2 ELSE 1

\* An exception of app.comms.devices.sendCommand.
CommsError == PlainError("sendCommand failed")

\* A command handed to sendCommand (line 168).
Command(d, g) ==
    [device |-> d, command |-> "update", snapshot |-> groupTargetSnapshotId(g)]

\* Mutant of targeted: no member is skipped.
targetedAll(devices, snapshotOf, target) == devices

\* The members the loop does not skip (line 162).
targeted(devices, snapshotOf, target) ==
    SelectSeq(devices, LAMBDA d : snapshotOf[d] = target)

\* An error leaves sendUpdateCommand: nothing in it catches.
sendThrow(err) ==
    notif' = [notif EXCEPT !.pc = "done", !.result = Thrown(err)]

\* sendUpdateCommand(app, deviceGroup) up to its first await (lines 147-149):
\* without app.comms it returns at once.
CallSendUpdateCommand(g, comms, snapshotOf) ==
    /\ notif.pc = "idle"
    /\ notif' = [NoNotif EXCEPT
                    !.comms = comms, !.deviceGroup = g,
                    !.snapshotOf = snapshotOf,
                    !.target = groupTargetSnapshotId(g),
                    !.pc = IF comms THEN "getApplication" ELSE "done",
                    !.result = IF comms THEN NoResult ELSE Returned]
    /\ UNCHANGED dbvars

\* deviceGroup.getApplication (line 149), which may fail.
SendGetApplication ==
    /\ notif.pc = "getApplication"
    /\ \/ notif' = [notif EXCEPT !.pc = "targetSnapshot"]
       \/ sendThrow(DatabaseError)
    /\ UNCHANGED dbvars

\* deviceGroup.targetSnapshot || ProjectSnapshot.byId(...) (line 150), which
\* may fail.
SendTargetSnapshot ==
    /\ notif.pc = "targetSnapshot"
    /\ \/ notif' = [notif EXCEPT !.pc = "getDevices"]
       \/ sendThrow(DatabaseError)
    /\ UNCHANGED dbvars

\* deviceGroup.getDevices() and the loop over its result (lines 159-169):
\* the loop awaits nothing; sendCommand may throw at any of its calls.
SendGetDevices ==
    /\ notif.pc = "getDevices"
    /\ \/ sendThrow(DatabaseError)
       \/ LET g == notif.deviceGroup
              devices == deviceListToIds(getDevices(groupId, g))
              todo == targeted(devices, notif.snapshotOf, notif.target)
          IN  \E k \in 0..Len(todo) :
                  notif' = [notif EXCEPT
                      !.pc = "done",
                      !.devices = devices,
                      !.sent = [i \in 1..k |-> Command(todo[i], g)],
                      !.result = IF k = Len(todo) THEN Returned
                                 ELSE Thrown(CommsError)]
    /\ UNCHANGED dbvars

\* The caller of sendUpdateCommand has taken its result.
SendReturn ==
    /\ notif.pc = "done"
    /\ notif' = NoNotif
    /\ UNCHANGED dbvars

\* Direct calls of the primitives change the groups while a caller sends
\* update commands.
NotifyLists == SeqsUpTo(Devices, MaxLenConc) \ {<<>>}

NextNotify ==
    \/ \E g \in SharedGroups, l \in NotifyLists :
           CallAssignDevicesToGroup(1, g, "number", l)
    \/ \E g \in SharedGroups, l \in NotifyLists :
           CallRemoveDevicesFromGroup(1, g, "number", l)
    \/ AssignValidate(1)
    \/ AssignUpdate(1)
    \/ RemoveValidate(1)
    \/ RemoveUpdate(1)
    \/ Return(1)
    \/ \E g \in SharedGroups, comms \in BOOLEAN,
          snapshotOf \in [Devices -> Snapshots] :
           CallSendUpdateCommand(g, comms, snapshotOf)
    \/ SendGetApplication
    \/ SendTargetSnapshot
    \/ SendGetDevices
    \/ SendReturn

SpecNotify == Init /\ [][NextNotify]_vars

\* ------------------------------------------------------------------ claims

\* The devices of group g in the committed table.
Members(g) == {d \in Devices : groupId[d] = g}

\* The ids an optional list of references names.
IdsOf(x) == Range(deviceListToIds(x.list))

\* Call c is a call of updateDeviceGroupMembership that has ended.
UpdateDone(c) == pc[c] = "done" /\ req[c].op = "updateDeviceGroupMembership"

\* Device d may be in group g: it is in no group or in g, of g's application
\* and of g's team.
Eligible(d, g) ==
    /\ groupId[d] \in {Null, g}
    /\ deviceApplicationId(d) = groupApplicationId(g)
    /\ deviceTeamId(d) = applicationTeamId(groupApplicationId(g))

\* C1: a setDevices call on a group whose listed devices are all eligible
\* (the list may be empty or name a device twice) succeeds and leaves the
\* group with exactly the listed devices, unless the database fails.  A call
\* that throws leaves the table as it found it, so the table it ends in tells
\* the eligibility before it.
C1_SetSemantics ==
    \A c \in Procs :
        (/\ UpdateDone(c)
         /\ req[c].deviceGroup \in Groups
         /\ local[c].setDevices.given
         /\ caught[c] # DatabaseError
         /\ \A d \in IdsOf(local[c].setDevices) : Eligible(d, req[c].deviceGroup))
        => /\ result[c] = Returned
           /\ Members(req[c].deviceGroup) = IdsOf(local[c].setDevices)

\* C2: after a call without setDevices that names a device in both addDevices
\* and removeDevices has returned, the device is not in the group.
C2_RemoveDominates ==
    \A c \in Procs :
        (/\ UpdateDone(c)
         /\ result[c] = Returned
         /\ ~local[c].setDevices.given)
        => \A d \in IdsOf(local[c].addDevices) \cap IdsOf(local[c].removeDevices) :
               groupId[d] # req[c].deviceGroup

\* C3: a call of updateDeviceGroupMembership that ends with an error has
\* changed no committed row, and while its transaction is open none of its
\* writes is in the committed table, which is all another call reads.
C3_AllOrNothing ==
    \A c \in Procs :
        req[c].op = "updateDeviceGroupMembership" =>
            /\ (pc[c] = "done" /\ result[c].status = "thrown") =>
                   hist[c].changed = {} /\ pending[c] = {}
            /\ txn[c] = "open" => hist[c].changed = {}

\* C3 witness: the add step was applied in the transaction, the remove step
\* failed, and the call has ended with the error.
C3_Witness ==
    \E c \in Procs :
        /\ UpdateDone(c)
        /\ result[c].status = "thrown"
        /\ hist[c].assignIds # {}
        /\ hist[c].removeIds # {}
        /\ txn[c] = "rolledback"

\* C4 as claimed: under any interleaving, the committed groupId of a device
\* never changes from one group to a different group.
C4_NoDirectSwitch ==
    [][\A d \in Devices :
          (groupId[d] # Null /\ groupId'[d] # Null) => groupId'[d] = groupId[d]]_vars

\* Device d is about to be assigned by call c, which validated it, and no
\* other call has changed it since.
Fresh(c, d) ==
    /\ pc[c] = "assignUpdate"
    /\ d \in addRows(c)
    /\ d \notin hist[c].stale

\* C4 as amended: the assign update of a call for group G finds every device
\* of its list in no group or in G, unless another call has changed that
\* device since the call validated it; and a committed groupId changes from
\* one group to a different group only in a step of a call for which the
\* device was stale in that way.
C4_SwitchOnlyWhenStale ==
    /\ [](\A c \in Procs, d \in Devices :
            Fresh(c, d) => groupId[d] \in {Null, req[c].deviceGroup})
    /\ [][\A d \in Devices :
            (groupId[d] # Null /\ groupId'[d] # Null /\ groupId'[d] # groupId[d])
            => \E c \in Procs :
                   /\ pc'[c] # pc[c]
                   /\ groupId'[d] = req[c].deviceGroup
                   /\ d \in hist[c].stale]_vars

\* C4 witness: a call has assigned to its group a device that another call,
\* for another group, had assigned after the first had validated it.
C4_Witness ==
    \E c \in Procs, o \in Procs, d \in Devices :
        /\ o # c
        /\ req[c].op = "updateDeviceGroupMembership"
        /\ req[o].op = "updateDeviceGroupMembership"
        /\ pc[c] = "done" /\ result[c] = Returned
        /\ pc[o] = "done" /\ result[o] = Returned
        /\ req[o].deviceGroup # req[c].deviceGroup
        /\ d \in hist[c].stale \cap hist[c].changed \cap hist[c].assignIds
        /\ d \in hist[o].changed \cap hist[o].assignIds
        /\ groupId[d] = req[c].deviceGroup

\* C5: every device in a group is of the group's application and of the team
\* of that application.
C5_MembershipInvariant ==
    \A d \in Devices :
        groupId[d] # Null =>
            /\ deviceApplicationId(d) = groupApplicationId(groupId[d])
            /\ deviceTeamId(d) = applicationTeamId(groupApplicationId(groupId[d]))

\* C5 witness: a group has a member while a call that would assign a device
\* of another application has been refused.
C5_Witness ==
    /\ \E d \in Devices : groupId[d] # Null
    /\ \E c \in Procs :
           /\ pc[c] = "done"
           /\ result[c] = Thrown(CannotAddError)
           /\ \E d \in addRows(c) :
                  deviceApplicationId(d) # groupApplicationId(req[c].deviceGroup)

\* C6: a call that repeats a setDevices call that has just succeeded executes
\* neither the assign nor the remove update and changes no groupId; it
\* returns unless the database fails.
C6_SetIdempotent ==
    \A c \in Procs :
        hist[c].again =>
            /\ hist[c].updates = 0
            /\ hist[c].assignIds = {}
            /\ hist[c].removeIds = {}
            /\ hist[c].changed = {}
            /\ pending[c] = {}
            /\ (pc[c] = "done" /\ caught[c] # DatabaseError) => result[c] = Returned

\* C6 witness: the repeated call of a setDevices call with a non-empty list
\* has returned, and the members of the group are those of the list.
C6_Witness ==
    \E c \in Procs :
        /\ pc[c] = "done"
        /\ hist[c].again
        /\ result[c] = Returned
        /\ IdsOf(local[c].setDevices) # {}
        /\ Members(req[c].deviceGroup) = IdsOf(local[c].setDevices)

\* C7: an error caught in the try block of updateDeviceGroupMembership leads
\* to the rollback of the transaction and to an error for the caller: a
\* DeviceGroupMembershipValidationError (invalid_input, 400) is thrown again
\* as it is, any other error as a generic error whose message is "Failed to
\* update device group membership: " followed by the message of the error.
C7_ErrorClassification ==
    \A c \in Procs :
        caught[c] # NoError =>
            /\ req[c].op = "updateDeviceGroupMembership"
            /\ pc[c] \in {"rollback", "done"}
            /\ pc[c] = "done" =>
                   /\ txn[c] = "rolledback"
                   /\ pending[c] = {}
                   /\ result[c].status = "thrown"
                   /\ IF caught[c].name = "DeviceGroupMembershipValidationError"
                      THEN /\ result[c].error = caught[c]
                           /\ result[c].error.code = "invalid_input"
                           /\ result[c].error.statusCode = 400
                      ELSE /\ result[c].error.name = "Error"
                           /\ result[c].error.message =
                                  "Failed to update device group membership: "
                                      \o caught[c].message

\* C7 witness: a call has ended after the remove update failed while its
\* transaction held an uncommitted assignment.
C7_Witness ==
    \E c \in Procs :
        /\ pc[c] = "done"
        /\ caught[c] = DatabaseError
        /\ hist[c].assignIds # {}
        /\ hist[c].removeIds # {}
        /\ txn[c] = "rolledback"
        /\ result[c] = Thrown(FailedToUpdate(DatabaseError))

\* The group of call c belongs to an application without a team.
NoTeam(c) ==
    /\ req[c].deviceGroup \in Groups
    /\ applicationTeamId(groupApplicationId(req[c].deviceGroup)) = Null

\* No list is given to call c.
NothingToDo(c) ==
    /\ ~local[c].setDevices.given
    /\ ~local[c].addDevices.given
    /\ ~local[c].removeDevices.given

\* C8 as claimed: a call of updateDeviceGroupMembership that fails because the
\* group is missing or because the application of the group has no team has
\* started no transaction.
C8_PreconditionBeforeTransaction ==
    \A c \in Procs :
        (/\ UpdateDone(c)
         /\ result[c].status = "thrown"
         /\ (result[c].error = DeviceGroupRequired \/ caught[c] = NoTeamError))
        => txn[c] = "none"

\* C8 as amended: a call without a group fails before any database access and
\* before a transaction is started; a call for a group whose application has
\* no team fails only when it has devices to assign or to remove, inside the
\* transaction, which is rolled back, and the caller gets the generic error.
C8_PreconditionErrors ==
    \A c \in Procs :
        UpdateDone(c) =>
            /\ (req[c].deviceGroup = NoGroup /\ result[c].status = "thrown") =>
                   /\ result[c] = Thrown(DeviceGroupRequired)
                   /\ txn[c] = "none"
                   /\ hist[c].queries = 0
                   /\ caught[c] = NoError
            /\ result[c].error = DeviceGroupRequired => req[c].deviceGroup = NoGroup
            /\ caught[c] = NoTeamError =>
                   /\ NoTeam(c)
                   /\ local[c].actualAddDevices # <<>>
                   /\ txn[c] = "rolledback"
                   /\ hist[c].updates = 0
                   /\ result[c] = Thrown(FailedToUpdate(NoTeamError))
            /\ (NoTeam(c) /\ caught[c] = NoError /\ ~NothingToDo(c)) =>
                   /\ local[c].actualAddDevices = <<>>
                   /\ result[c] = Returned
                   /\ txn[c] = "committed"

\* C8 witness: a call for a group whose application has no team has failed
\* after its transaction was started.
C8_Witness ==
    \E c \in Procs :
        /\ UpdateDone(c)
        /\ caught[c] = NoTeamError
        /\ txn[c] = "rolledback"
        /\ result[c].status = "thrown"

\* C9: a call of updateDeviceGroupMembership with none of addDevices,
\* removeDevices and setDevices returns at once, whatever its group argument,
\* without a database access or a transaction and with every groupId as it
\* was.
C9_NothingToDo ==
    /\ [](\A c \in Procs :
            (req[c].op = "updateDeviceGroupMembership" /\ NothingToDo(c)) =>
                /\ pc[c] = "done"
                /\ result[c] = Returned
                /\ hist[c].queries = 0
                /\ txn[c] = "none"
                /\ pending[c] = {})
    /\ [][\A c \in Procs :
            (/\ pc[c] = "idle"
             /\ req'[c].op = "updateDeviceGroupMembership"
             /\ NothingToDo(c)')
            => groupId' = groupId]_vars

\* C9 witness: a call with no list and no group has returned.
C9_Witness ==
    \E c \in Procs :
        /\ UpdateDone(c)
        /\ NothingToDo(c)
        /\ req[c].deviceGroup = NoGroup
        /\ result[c] = Returned

\* The devices call c need not write: those of addDevices that were members
\* and those of removeDevices that were not, when the call read the members.
Redundant(c) ==
    (IdsOf(local[c].addDevices) \cap Range(local[c].currentMemberIds))
    \cup (IdsOf(local[c].removeDevices) \ Range(local[c].currentMemberIds))

\* Call c is a call without setDevices that has read the members of its group.
NonSet(c) ==
    /\ req[c].op = "updateDeviceGroupMembership"
    /\ req[c].deviceGroup \in Groups
    /\ ~local[c].setDevices.given
    /\ pc[c] \notin {"idle", "getDevices"}

\* C10 as claimed: in a call without setDevices, a device of addDevices that
\* is a member, and a device of removeDevices that is not, is handed to
\* neither update and its groupId is not written.
C10_NoRedundantWrites ==
    \A c \in Procs :
        NonSet(c) =>
            \A d \in Redundant(c) :
                /\ d \notin hist[c].assignIds \cup hist[c].removeIds
                /\ d \notin hist[c].changed

\* C10 as amended: in a call without setDevices, a device of addDevices that
\* is a member is not handed to the assign update, and is handed to the
\* remove update exactly if removeDevices names it too; a device of
\* removeDevices that is not a member is not handed to the remove update, and
\* is handed to the assign update exactly if addDevices names it too; a call
\* whose lists name only such devices, each in one list, makes no update and
\* returns unless the database fails.
C10_NoRedundantUpdate ==
    \A c \in Procs :
        NonSet(c) =>
            LET cur == Range(local[c].currentMemberIds)
                add == IdsOf(local[c].addDevices)
                rem == IdsOf(local[c].removeDevices)
            IN  /\ \A d \in add \cap cur :
                       /\ d \notin hist[c].assignIds
                       /\ d \notin rem =>
                              d \notin hist[c].removeIds \cup hist[c].changed
                /\ \A d \in rem \ cur :
                       /\ d \notin hist[c].removeIds
                       /\ d \notin add =>
                              d \notin hist[c].assignIds \cup hist[c].changed
                /\ (add \subseteq cur \ rem /\ rem \cap (cur \cup add) = {}) =>
                       /\ hist[c].updates = 0
                       /\ caught[c] \in {NoError, DatabaseError}
                       /\ (pc[c] = "done" /\ caught[c] = NoError) =>
                              result[c] = Returned

\* C10 witness: a call has returned that was to add a member and to remove a
\* device that is no member, and has made no update.
C10_Witness ==
    \E c \in Procs :
        /\ NonSet(c)
        /\ pc[c] = "done"
        /\ result[c] = Returned
        /\ hist[c].updates = 0
        /\ IdsOf(local[c].addDevices) \cap Range(local[c].currentMemberIds) # {}
        /\ IdsOf(local[c].removeDevices) \ Range(local[c].currentMemberIds) # {}

\* The devices among ds to which the commands cmds go, each as often as
\* cmds names it.
SentTo(cmds, d) == Cardinality({i \in 1..Len(cmds) : cmds[i].device = d})

\* C11: a call of sendUpdateCommand that has returned has handed to
\* sendCommand, when app.comms is set, exactly one 'update' command for each
\* device getDevices returned whose targetSnapshotId is that of the group,
\* and none for any other device; when app.comms is not set, none at all.
\* The devices getDevices returns are the members of the group.
C11_NotifierTargeting ==
    /\ [](notif.pc = "done" /\ notif.result = Returned =>
            \A d \in Devices :
                /\ \A i \in 1..Len(notif.sent) : notif.sent[i].command = "update"
                /\ SentTo(notif.sent, d) =
                       IF /\ notif.comms
                          /\ Includes(notif.devices, d)
                          /\ notif.snapshotOf[d] = groupTargetSnapshotId(notif.deviceGroup)
                       THEN 1 ELSE 0)
    /\ [][notif.pc = "getDevices" /\ notif'.result = Returned =>
            Range(notif'.devices) = Members(notif.deviceGroup)]_vars

\* C11 witness: a call has returned that sent a command to one member of the
\* group and skipped another.
C11_Witness ==
    /\ notif.pc = "done"
    /\ notif.result = Returned
    /\ Len(notif.devices) = 2
    /\ Len(notif.sent) = 1
    /\ \E d \in Devices : groupId[d] # notif.deviceGroup

\* C12: no call of sendUpdateCommand ends with an exception for its caller,
\* and no step of it changes a groupId.
C12_NotifierIsolation ==
    /\ [](notif.pc = "done" => notif.result.status # "thrown")
    /\ [][notif' # notif => groupId' = groupId]_vars

\* Call c is a call of updateDeviceGroupMembership that has computed its
\* lists.
Diffed(c) ==
    /\ req[c].op = "updateDeviceGroupMembership"
    /\ pc[c] \notin {"idle", "getDevices"}
    /\ req[c].deviceGroup \in Groups
    /\ ~NothingToDo(c)

\* C13: with C the members read, the list to remove names C minus set and
\* the list to add names set minus C when setDevices is given, whatever
\* addDevices and removeDevices are; otherwise they name C intersected with
\* removeDevices and addDevices minus C, an absent list counting as empty.
\* These lists are what the updates are handed, and C is the members of the
\* group until the call writes.
C13_DiffComputation ==
    \A c \in Procs :
        Diffed(c) =>
            LET C == Range(local[c].currentMemberIds)
                set == IdsOf(local[c].setDevices)
                add == IdsOf(local[c].addDevices)
                rem == IdsOf(local[c].removeDevices)
                toAdd == Range(local[c].actualAddDevices)
                toRemove == Range(local[c].actualRemoveDevices)
            IN  /\ IF local[c].setDevices.given
                   THEN toRemove = C \ set /\ toAdd = set \ C
                   ELSE toRemove = C \cap rem /\ toAdd = add \ C
                /\ hist[c].assignIds \subseteq toAdd
                /\ hist[c].removeIds \subseteq toRemove
                /\ result[c] = Returned =>
                       hist[c].assignIds = toAdd /\ hist[c].removeIds = toRemove
                /\ pc[c] # "done" => C = Members(req[c].deviceGroup)

\* C13 witness: a call has returned that had setDevices along with an
\* addDevices naming a device that is neither in setDevices nor a member,
\* and has added and removed a device.
C13_Witness ==
    \E c \in Procs :
        /\ Diffed(c)
        /\ pc[c] = "done"
        /\ result[c] = Returned
        /\ local[c].setDevices.given
        /\ local[c].actualRemoveDevices # <<>>
        /\ local[c].actualAddDevices # <<>>
        /\ IdsOf(local[c].addDevices) \ (IdsOf(local[c].setDevices)
               \cup Range(local[c].currentMemberIds)) # {}

\* Call c is a direct call of the primitive op for a group whose application
\* has a team.
Direct(c, op) ==
    /\ req[c].op = op
    /\ req[c].deviceGroup \in Groups
    /\ ~NoTeam(c)

\* The ids the list of the direct call c names.
Listed(c) == Range(deviceListToIds(req[c].deviceList))

\* C14: the validation of a direct assignDevicesToGroup call throws the
\* DeviceGroupMembershipValidationError exactly if a device of the list is
\* not eligible, whether or not the list names a device twice; a call whose
\* devices are all eligible succeeds, unless the database fails, with all of
\* them in the group.
C14_AddValidation ==
    /\ [][\A c \in Procs :
            (Direct(c, "assignDevicesToGroup") /\ pc[c] = "assignValidate"
                 /\ pc'[c] # pc[c])
            => IF \A d \in Listed(c) : Eligible(d, req[c].deviceGroup)
               THEN pc'[c] = "assignUpdate"
               ELSE pc'[c] = "done" /\ result'[c] = Thrown(CannotAddError)]_vars
    /\ [](\A c \in Procs :
            (Direct(c, "assignDevicesToGroup") /\ pc[c] = "done"
                 /\ result[c] = Returned)
            => \A d \in Listed(c) : groupId[d] = req[c].deviceGroup)

\* Device d is in group g, of g's application and of g's team.
InGroup(d, g) ==
    /\ groupId[d] = g
    /\ deviceApplicationId(d) = groupApplicationId(g)
    /\ deviceTeamId(d) = applicationTeamId(groupApplicationId(g))

\* Call c is a direct call of removeDevicesFromGroup that is about to
\* validate its list for a group.
Removing(c) ==
    /\ req[c].op = "removeDevicesFromGroup"
    /\ req[c].deviceGroup \in Groups
    /\ pc[c] = "removeValidate"

\* C17 as claimed: a direct removeDevicesFromGroup call for a group throws
\* the DeviceGroupMembershipValidationError and changes nothing whenever a
\* listed device is not in the group; a call that succeeds leaves every
\* listed device in no group and changes no other device.
C17_RemovalValidated ==
    /\ [][\A c \in Procs :
            (/\ Removing(c) /\ pc'[c] # pc[c]
             /\ \E d \in Listed(c) : ~InGroup(d, req[c].deviceGroup))
            => /\ pc'[c] = "done"
               /\ result'[c] = Thrown(CannotRemoveError)
               /\ groupId' = groupId]_vars
    /\ [](\A c \in Procs :
            (/\ req[c].op = "removeDevicesFromGroup"
             /\ pc[c] = "done" /\ result[c] = Returned)
            => /\ \A d \in Listed(c) : groupId[d] = Null
               /\ hist[c].changed \subseteq Listed(c))

\* C17 as amended: when the application of the group has a team, the call
\* throws the DeviceGroupMembershipValidationError whenever a listed device
\* is not in the group; when it has none, the call throws the plain error of
\* line 219; a call that throws changes nothing; a call that succeeds has
\* set exactly the listed devices, all members before, to no group.
C17_RemovalValidatedWithTeam ==
    /\ [][\A c \in Procs :
            (/\ Removing(c) /\ pc'[c] # pc[c]
             /\ \E d \in Listed(c) : ~InGroup(d, req[c].deviceGroup))
            => /\ pc'[c] = "done"
               /\ result'[c] = Thrown(IF NoTeam(c) THEN NoTeamError
                                      ELSE CannotRemoveError)
               /\ groupId' = groupId]_vars
    /\ [](\A c \in Procs :
            (req[c].op = "removeDevicesFromGroup" /\ pc[c] = "done") =>
                /\ result[c].status = "thrown" => hist[c].changed = {}
                /\ result[c] = Returned =>
                       /\ \A d \in Listed(c) : groupId[d] = Null
                       /\ hist[c].changed = Listed(c))

\* C17 witness: a direct call to remove a member and a device that is no
\* member has thrown the validation error, the member still in the group.
C17_Witness ==
    \E c \in Procs :
        /\ Direct(c, "removeDevicesFromGroup")
        /\ pc[c] = "done"
        /\ result[c] = Thrown(CannotRemoveError)
        /\ \E d \in Listed(c) : groupId[d] = req[c].deviceGroup
        /\ \E d \in Listed(c) : groupId[d] # req[c].deviceGroup

\* C20: an assignDevicesToGroup call that repeats one that has just
\* succeeded passes the validation, changes no groupId and returns, unless
\* the database fails.
C20_AssignIdempotent ==
    \A c \in Procs :
        (req[c].op = "assignDevicesToGroup" /\ hist[c].again) =>
            /\ hist[c].changed = {}
            /\ \A d \in Listed(c) : groupId[d] = req[c].deviceGroup
            /\ pc[c] \in {"assignValidate", "assignUpdate", "done"}
            /\ pc[c] = "done" =>
                   result[c] \in {Returned, Thrown(DatabaseError)}

\* C20 witness: the repeated call for a list of two devices has returned.
C20_Witness ==
    \E c \in Procs :
        /\ req[c].op = "assignDevicesToGroup"
        /\ hist[c].again
        /\ pc[c] = "done"
        /\ result[c] = Returned
        /\ hist[c].updates = 1
        /\ Cardinality(Listed(c)) = 2

\* C15: a committed groupId goes from a group to null only in a step of a
\* call for that very group that was to remove the device, and a removal
\* that waits in a transaction is of a device the table still has in the
\* group of the call; so a device that has left the group since the call
\* validated its list is not touched.
C15_DefensiveRemoval ==
    /\ [][\A d \in Devices :
            (groupId[d] # Null /\ groupId'[d] = Null) =>
                \E c \in Procs :
                    /\ pc'[c] # pc[c]
                    /\ req[c].deviceGroup = groupId[d]
                    /\ d \in hist'[c].removeIds]_vars
    /\ [](\A c \in Procs : \A w \in pending[c] :
            w[2] = Null => groupId[w[1]] = req[c].deviceGroup)

\* C15 witness: a call has returned from removing a device that it has not
\* changed, because the device was by then in another group.
C15_Witness ==
    \E c \in Procs, d \in Devices :
        /\ pc[c] = "done"
        /\ result[c] = Returned
        /\ d \in hist[c].removeIds
        /\ d \notin hist[c].changed
        /\ groupId[d] \notin {Null, req[c].deviceGroup}

\* C18: the list to add and the list to remove of a call have no id in
\* common, the list to remove names members only and the list to add names no
\* member; no call hands the same id to both updates.
C18_DisjointLists ==
    \A c \in Procs :
        Diffed(c) =>
            LET C == Range(local[c].currentMemberIds)
                toAdd == Range(local[c].actualAddDevices)
                toRemove == Range(local[c].actualRemoveDevices)
            IN  /\ toAdd \cap toRemove = {}
                /\ toRemove \subseteq C
                /\ toAdd \cap C = {}
                /\ hist[c].assignIds \cap hist[c].removeIds = {}

\* C18 witness: a call has returned after both updates.
C18_Witness ==
    \E c \in Procs :
        /\ Diffed(c)
        /\ pc[c] = "done"
        /\ result[c] = Returned
        /\ hist[c].assignIds # {}
        /\ hist[c].removeIds # {}

\* C19: a transaction that a call has started is committed or rolled back
\* in the end; no call has ended with its transaction open, a call that has
\* returned after starting one has committed it, and a call that has thrown
\* after starting one has rolled it back.
C19_TransactionClosed ==
    /\ \A c \in Procs :
           txn[c] = "open" ~> txn[c] \in {"committed", "rolledback"}
    /\ [](\A c \in Procs :
            UpdateDone(c) =>
                /\ txn[c] # "open"
                /\ pending[c] = {}
                /\ (result[c] = Returned /\ ~NothingToDo(c)) => txn[c] = "committed"
                /\ (result[c].status = "thrown" /\ hist[c].queries > 0) =>
                       txn[c] = "rolledback")

\* C19 witness: a call with nothing to add or remove has thrown after its
\* commit failed, the transaction rolled back.
C19_Witness ==
    \E c \in Procs :
        /\ UpdateDone(c)
        /\ result[c] = Thrown(FailedToUpdate(DatabaseError))
        /\ hist[c].updates = 0
        /\ txn[c] = "rolledback"

\* Calls a and b are the two calls on one group, both ended.
BothDone(a, b) ==
    /\ a # b
    /\ UpdateDone(a) /\ UpdateDone(b)
    /\ req[a].deviceGroup = req[b].deviceGroup

\* Call c has ended as the claim allows: returned, or thrown the validation
\* error with nothing changed; a failure of the database apart.
EndedWell(c) ==
    \/ result[c] = Returned
    \/ /\ result[c].error.name = "DeviceGroupMembershipValidationError"
       /\ hist[c].changed = {}
    \/ /\ caught[c] = DatabaseError
       /\ hist[c].changed = {}

\* C16 as claimed: of two calls on one group whose steps interleave, no
\* device is changed by both, and each returns or throws the validation
\* error with nothing changed.
C16_SameGroupCalls ==
    \A a \in Procs, b \in Procs :
        BothDone(a, b) =>
            /\ hist[a].changed \cap hist[b].changed = {}
            /\ EndedWell(a) /\ EndedWell(b)

\* C16 as amended: the same, for two calls that have read the same members,
\* i.e. when the call that commits second has read the members of the group
\* before the first has committed a change.
C16_SameGroupSameRead ==
    \A a \in Procs, b \in Procs :
        BothDone(a, b) =>
            /\ EndedWell(a) /\ EndedWell(b)
            /\ local[a].currentMemberIds = local[b].currentMemberIds =>
                   hist[a].changed \cap hist[b].changed = {}

\* C16 witness: of two calls that have read the same members and were to
\* remove the same device, one has changed it and the other has thrown the
\* validation error.
C16_Witness ==
    \E a \in Procs, b \in Procs, d \in Devices :
        /\ BothDone(a, b)
        /\ local[a].currentMemberIds = local[b].currentMemberIds
        /\ d \in hist[a].changed
        /\ Includes(local[a].actualRemoveDevices, d)
        /\ Includes(local[b].actualRemoveDevices, d)
        /\ result[a] = Returned
        /\ result[b] = Thrown(CannotRemoveError)

====
